---------------------------- MODULE Spec2Model ----------------------------
(***************************************************************************)
(* A model of django-webpack: the static-file registry                     *)
(* (Webpack.get_staticfiles), the static prefix and the request matcher    *)
(* (staticfiles_prefix, staticfiles_matcher, WebpackStaticMiddleware), and *)
(* the two management commands (collectstatic, runserver) that create a    *)
(* temporary working directory, prepare it, install the dependencies and   *)
(* run the bundler in it.                                                  *)
(*                                                                         *)
(* Strings are sequences of one-character strings, so that joining,        *)
(* normalising, stripping and matching are computed character by           *)
(* character, as the code's library calls compute them.                    *)
(***************************************************************************)
EXTENDS Naturals, Sequences, FiniteSets

\* The most files one finder reports in one enumeration.
MaxFiles == 2

\* The most lines the bundler writes in one run.
MaxLines == 2

(***************************************************************************)
(* Strings and paths.                                                      *)
(***************************************************************************)

SLASH == <<"/">>

StartsWith(s, p) == Len(s) >= Len(p) /\ SubSeq(s, 1, Len(p)) = p

\* str.lstrip("/")
RECURSIVE lstrip_slash(_)
lstrip_slash(s) ==
    IF s # <<>> /\ Head(s) = "/" THEN lstrip_slash(Tail(s)) ELSE s

\* str.split("/"): the segments between the slashes, empty ones included.
RECURSIVE SplitAcc(_, _, _)
SplitAcc(s, cur, acc) ==
    IF s = <<>> THEN Append(acc, cur)
    ELSE IF Head(s) = "/" THEN SplitAcc(Tail(s), <<>>, Append(acc, cur))
    ELSE SplitAcc(Tail(s), Append(cur, Head(s)), acc)

IsRealSegment(seg) == seg # <<>> /\ seg # <<".">>

\* The segments pathlib and posixpath keep: empty ones and "." are dropped.
Segments(s) == SelectSeq(SplitAcc(s, <<>>, <<>>), IsRealSegment)

RECURSIVE JoinSlash(_)
JoinSlash(parts) ==
    IF parts = <<>> THEN <<>>
    ELSE IF Len(parts) = 1 THEN parts[1]
    ELSE parts[1] \o SLASH \o JoinSlash(Tail(parts))

\* ".." segments folded away; at the root (or with nothing to fold) ".."
\* stays where an absolute path drops it and a relative one keeps it.
RECURSIVE FoldDotDot(_, _, _)
FoldDotDot(parts, acc, rooted) ==
    IF parts = <<>> THEN acc
    ELSE IF Head(parts) = <<".", ".">>
         THEN IF acc # <<>> /\ acc[Len(acc)] # <<".", ".">>
              THEN FoldDotDot(Tail(parts), SubSeq(acc, 1, Len(acc) - 1), rooted)
              ELSE IF rooted THEN FoldDotDot(Tail(parts), acc, rooted)
              ELSE FoldDotDot(Tail(parts), Append(acc, Head(parts)), rooted)
         ELSE FoldDotDot(Tail(parts), Append(acc, Head(parts)), rooted)

\* pathlib.Path(s): a root flag and the kept segments.
Path(s) == [root |-> s # <<>> /\ Head(s) = "/", parts |-> Segments(s)]

\* str(path)
PathStr(p) ==
    IF p.parts = <<>> THEN (IF p.root THEN SLASH ELSE <<".">>)
    ELSE (IF p.root THEN SLASH ELSE <<>>) \o JoinSlash(p.parts)

\* Path.resolve(): made absolute against the working directory of the
\* process, ".." folded.  No component of the path is a symbolic link.
Resolve(p, dir) ==
    [root |-> TRUE,
     parts |-> FoldDotDot(IF p.root THEN p.parts ELSE Path(dir).parts \o p.parts,
                          <<>>, TRUE)]

\* posixpath.normpath(s)
normpath(s) ==
    LET p == Path(s)
        q == [root |-> p.root, parts |-> FoldDotDot(p.parts, <<>>, p.root)]
    IN PathStr(q)

\* pathlib's a / b
PathJoin(a, b) ==
    IF b.root THEN b ELSE [root |-> a.root, parts |-> a.parts \o b.parts]

\* os.path.join(a, b)
os_path_join(a, b) ==
    IF b # <<>> /\ Head(b) = "/" THEN b
    ELSE IF a = <<>> \/ a[Len(a)] = "/" THEN a \o b
    ELSE a \o SLASH \o b

(***************************************************************************)
(* The inputs of the registry: what the configured finders report.         *)
(***************************************************************************)

\* Relative paths a finder reports.
RelPaths == { <<"b">>, <<"a", "/", "b">> }

\* Storages: one that declares a prefix and one that declares none.
Storages == { [prefix |-> <<"a">>, location |-> <<"/", "x">>],
              [prefix |-> <<>>,    location |-> <<"/", "y">>] }

FilePairs == [path : RelPaths, storage : Storages]

\* The finders of Django's default STATICFILES_FINDERS, in their order.
FinderNames == <<"FileSystemFinder", "AppDirectoriesFinder">>

RECURSIVE SeqsUpTo(_, _)
SeqsUpTo(S, n) ==
    IF n = 0 THEN { <<>> }
    ELSE LET shorter == SeqsUpTo(S, n - 1)
         IN shorter \cup { Append(q, x) : q \in shorter, x \in S }

\* One enumeration of the finders: each finder's (path, storage) pairs in the
\* finder's order, and the finder (0: none) whose list() raises.
FinderInputs(n) ==
    [files : [1..Len(FinderNames) -> SeqsUpTo(FilePairs, n)],
     raiser : 0..Len(FinderNames)]

(***************************************************************************)
(* The state.                                                              *)
(***************************************************************************)
VARIABLES
    finders,        \* what get_finders() and each finder.list() report
    STATIC_URL,     \* settings.STATIC_URL
    cwd,            \* the working directory of the Python process
    aphase,         \* position of a direct caller of the registry and matcher
    found_files,    \* the registry get_staticfiles returned
    copy_files,     \* the copy directives built from it
    request,        \* request.path of the request the middleware is handling
    response,       \* what the middleware did with it
    cmd,            \* the management command that is running
    options,        \* its parsed command-line options
    environ,        \* os.environ: the variables that are set
    host_files,     \* which of settings.BASE_DIR's files exist
    wp,             \* the Webpack object's fields
    wd_exists,      \* the temporary working directory exists
    wd_entries,     \* its directory entries
    pc,             \* position of the main thread and of the executor's worker
    exc,            \* the exception each thread is raising or has raised
    install,        \* the package manager's install subprocess
    build,          \* the bundler subprocess
    term,           \* lines the bundler wrote to the inherited stdout/stderr
    cb_lines,       \* lines passed to the per-line callbacks, per stream
    build_ret,      \* what run_webpack_build returned to its caller
    config_file,    \* the text written to work_dir/webpack.config.js
    created,        \* history: every entry ever created in the working directory
    sp              \* a call of execute(_stream_subprocess(...)): loop, child, pipes

asset_vars == <<finders, STATIC_URL, cwd, aphase, found_files, copy_files,
                request, response>>
cmd_other == <<cmd, options, environ, host_files, wp, wd_exists, wd_entries,
               pc, exc, install, build, term, build_ret, config_file, created>>
cmd_vars == <<cmd_other, cb_lines>>
vars == <<asset_vars, cmd_vars, sp>>

(***************************************************************************)
(* Webpack.get_staticfiles: the registry, an insertion-ordered dict, is a  *)
(* sequence of [key, val] entries with distinct keys.                      *)
(***************************************************************************)

HasKey(d, k) == \E i \in 1..Len(d) : d[i].key = k

\* getattr(storage, "prefix", None) and os.path.join
prefixed_path(path, storage) ==
    IF storage.prefix # <<>> THEN os_path_join(storage.prefix, path) ELSE path

\* A registry that lets the last writer win.
add_found_overwrite(found, k, v) ==
    IF HasKey(found, k)
    THEN [i \in 1..Len(found) |->
            IF found[i].key = k THEN [key |-> k, val |-> v] ELSE found[i]]
    ELSE Append(found, [key |-> k, val |-> v])

\* if prefixed_path not in found_files: found_files[prefixed_path] = ...
add_found(found, k, v) ==
    IF HasKey(found, k) THEN found ELSE Append(found, [key |-> k, val |-> v])

\* for path, storage in finder.list(ignore_patterns): ...
RECURSIVE scan_finder(_, _)
scan_finder(files, found) ==
    IF files = <<>> THEN found
    ELSE LET f == Head(files)
         IN scan_finder(Tail(files),
                        add_found(found, prefixed_path(f.path, f.storage),
                                  <<f.storage.location, f.path>>))

\* for finder in get_finders(): ...   A finder that raises ends the call.
RECURSIVE scan_finders(_, _, _)
scan_finders(fs, i, found) ==
    IF i > Len(FinderNames) THEN [raised |-> FALSE, found |-> found]
    ELSE IF fs.raiser = i THEN [raised |-> TRUE, found |-> <<>>]
    ELSE scan_finders(fs, i + 1, scan_finder(fs.files[i], found))

get_staticfiles(fs) == scan_finders(fs, 1, <<>>)

(***************************************************************************)
(* staticfiles_prefix, staticfiles_matcher and the copy directives.        *)
(***************************************************************************)

\* posixpath.normpath(Path(settings.STATIC_URL).resolve()).lstrip("/")
staticfiles_prefix ==
    lstrip_slash(normpath(PathStr(Resolve(Path(STATIC_URL), cwd))))

\* One pattern character against one character: "." is the regex wildcard.
RegexCharMatches(p, c) == p = "." \/ p = c

\* re.compile(r"^%s(?P<path>.*)$" % settings.STATIC_URL).findall(path):
\* the list of the one group, or the empty list.
staticfiles_matcher(path) ==
    IF /\ Len(path) >= Len(STATIC_URL)
       /\ \A i \in 1..Len(STATIC_URL) : RegexCharMatches(STATIC_URL[i], path[i])
    THEN << SubSeq(path, Len(STATIC_URL) + 1, Len(path)) >>
    ELSE <<>>

\* copy_files.append(dict(source=Path(v[0]) / v[1],
\*                        dest=Path(staticfiles_prefix) / k))
make_copy_files(static_files) ==
    [i \in 1..Len(static_files) |->
        [source |-> PathStr(PathJoin(Path(static_files[i].val[1]),
                                     Path(static_files[i].val[2]))),
         dest |-> PathStr(PathJoin(Path(staticfiles_prefix),
                                   Path(static_files[i].key)))]]

\* dict.update: the second mapping's entries override the first's.
dict_update(a, b) ==
    [k \in DOMAIN a \cup DOMAIN b |-> IF k \in DOMAIN b THEN b[k] ELSE a[k]]

\* Template(self.config).render(**context): the template's three placeholders.
render(context) ==
    [mode |-> context["mode"], public_path |-> context["public_path"],
     patterns |-> context["copy_files"]]

(***************************************************************************)
(* A caller that builds the registry and the copy directives, and then the *)
(* middleware handling one request.                                        *)
(***************************************************************************)

\* static_files = self.get_staticfiles()
CallGetStaticfiles ==
    /\ aphase = "start"
    /\ LET r == get_staticfiles(finders)
       IN IF r.raised
          THEN aphase' = "raised" /\ UNCHANGED found_files
          ELSE aphase' = "collected" /\ found_files' = r.found
    /\ UNCHANGED <<finders, STATIC_URL, cwd, copy_files, request, response>>
    /\ UNCHANGED <<cmd_vars, sp>>

\* copy_files = []; for k, v in static_files.items(): ...
CallMakeCopyFiles ==
    /\ aphase = "collected"
    /\ copy_files' = make_copy_files(found_files)
    /\ aphase' = "copied"
    /\ UNCHANGED <<finders, STATIC_URL, cwd, found_files, request, response>>
    /\ UNCHANGED <<cmd_vars, sp>>

\* Request paths worth sending: a registry key under STATIC_URL, a copy
\* destination with and without a leading slash, the prefix followed by a key,
\* and a path outside the static tree.
RequestPaths ==
    { STATIC_URL \o found_files[i].key : i \in 1..Len(found_files) }
    \cup { copy_files[i].dest : i \in 1..Len(copy_files) }
    \cup { SLASH \o copy_files[i].dest : i \in 1..Len(copy_files) }
    \cup { staticfiles_prefix \o found_files[i].key : i \in 1..Len(found_files) }
    \cup { <<"/", "o">> }

\* WebpackStaticMiddleware.__call__
MiddlewareCall(path) ==
    /\ aphase = "copied"
    /\ request' = path
    /\ LET static_file == staticfiles_matcher(path)
       IN response' =
            IF static_file # <<>>
            THEN [via |-> "serve", path |-> static_file[1],
                  document_root |-> staticfiles_prefix]
            ELSE [via |-> "get_response", path |-> <<>>, document_root |-> <<>>]
    /\ aphase' = "served"
    /\ UNCHANGED <<finders, STATIC_URL, cwd, found_files, copy_files>>
    /\ UNCHANGED <<cmd_vars, sp>>

NextAssets ==
    \/ CallGetStaticfiles
    \/ CallMakeCopyFiles
    \/ \E path \in RequestPaths : MiddlewareCall(path)

(***************************************************************************)
(* Initial states.                                                         *)
(***************************************************************************)

NoResponse == [via |-> "none", path |-> <<>>, document_root |-> <<>>]
NoException == [type |-> "none", step |-> "none"]
NoWebpack == [set |-> FALSE, document_root |-> "none", package_json_path |-> "none",
              yarn_lock_path |-> "none", node_modules_path |-> "none"]
NoProcess == [state |-> "none", rc |-> "none"]
NoResult == [kind |-> "none", value |-> "none"]
NoStreaming ==
    [pc |-> "idle", calls |-> 0, loop_closed |-> FALSE, result |-> NoResult,
     child |-> NoProcess, written |-> <<>>,
     pipe |-> [s \in {"stdout", "stderr"} |-> <<>>],
     reader |-> [s \in {"stdout", "stderr"} |-> "idle"]]
Threads == {"main", "worker"}

\* No management command is running.
InitNoCommand ==
    /\ cmd = "none"
    /\ options = [yarn_bin |-> "valid", watch |-> FALSE, mode |-> "development"]
    /\ environ = {}
    /\ host_files = {}
    /\ wp = NoWebpack
    /\ wd_exists = FALSE
    /\ wd_entries = {}
    /\ pc = [t \in Threads |-> "idle"]
    /\ exc = [t \in Threads |-> NoException]
    /\ install = NoProcess
    /\ build = NoProcess
    /\ term = <<>>
    /\ cb_lines = [s \in {"stdout", "stderr"} |-> <<>>]
    /\ build_ret = "unset"
    /\ config_file = <<>>
    /\ created = {}
    /\ sp = NoStreaming

InitAssetsIdle ==
    /\ found_files = <<>>
    /\ copy_files = <<>>
    /\ request = <<>>
    /\ response = NoResponse

\* settings.STATIC_URL values: "/s/", "/", "/s/../t/" and "h://c/s/".
StaticUrls ==
    { <<"/", "s", "/">>, <<"/">>,
      <<"/", "s", "/", ".", ".", "/", "t", "/">>,
      <<"h", ":", "/", "/", "c", "/", "s", "/">> }

Cwds == { <<"/">>, <<"/", "w">> }

\* The registry under every enumeration the finders can report.
InitStatic ==
    /\ finders \in FinderInputs(MaxFiles)
    /\ STATIC_URL = <<"/", "s", "/">>
    /\ cwd = <<"/", "w">>
    /\ aphase = "start"
    /\ InitAssetsIdle
    /\ InitNoCommand

SpecStatic == InitStatic /\ [][NextAssets]_vars

\* The prefix and the matcher under every STATIC_URL.
InitPrefix ==
    /\ finders \in FinderInputs(1)
    /\ STATIC_URL \in StaticUrls
    /\ cwd \in Cwds
    /\ aphase = "start"
    /\ InitAssetsIdle
    /\ InitNoCommand

SpecPrefix == InitPrefix /\ [][NextAssets]_vars

(***************************************************************************)
(* The management commands.  collectstatic runs prepare_webpack_root and   *)
(* run_webpack_build on the main thread; runserver hands both to the one   *)
(* worker of a ThreadPoolExecutor and runs the HTTP server on the main     *)
(* thread.  Both run inside "with tempfile.TemporaryDirectory()".          *)
(***************************************************************************)

Streams == {"stdout", "stderr"}

\* The thread that runs prepare_webpack_root and run_webpack_build.
runner == IF cmd = "runserver" THEN "worker" ELSE "main"

Goto(t, step) == pc' = [pc EXCEPT ![t] = step]

\* An exception leaves the with block on the main thread, whose __exit__ then
\* removes the working directory; on the worker it ends run_webpack and is
\* kept in the future nobody reads.
Raise(t, type) ==
    /\ exc' = [exc EXCEPT ![t] = [type |-> type, step |-> pc[t]]]
    /\ Goto(t, IF t = "main" THEN "cleanup_unlink" ELSE "failed")

Entry(name, kind, target) == [name |-> name, kind |-> kind, target |-> target]

\* A file or symlink created in the working directory.
Create(e) ==
    /\ wd_entries' = wd_entries \cup {e}
    /\ created' = created \cup {e}

\* yarn_bin = options["yarn_bin"]; if not yarn_bin: raise CommandError(...)
CheckYarn ==
    /\ pc["main"] = "start"
    /\ IF options.yarn_bin = "none"
       THEN /\ exc' = [exc EXCEPT !["main"] =
                          [type |-> "CommandError", step |-> "start"]]
            /\ Goto("main", "raised")
       ELSE Goto("main", "mkdtemp") /\ UNCHANGED exc
    /\ UNCHANGED <<cmd, options, environ, host_files, wp, wd_exists, wd_entries,
                   install, build, term, cb_lines, build_ret, config_file, created>>
    /\ UNCHANGED <<asset_vars, sp>>

\* with tempfile.TemporaryDirectory() as work_dir:
Mkdtemp ==
    /\ pc["main"] = "mkdtemp"
    /\ wd_exists' = TRUE
    /\ wd_entries' = {}
    /\ Goto("main", "init")
    /\ UNCHANGED <<cmd, options, environ, host_files, wp, exc, install, build,
                   term, cb_lines, build_ret, config_file, created>>
    /\ UNCHANGED <<asset_vars, sp>>

\* public_root = os.environ.get("PUBLIC_ROOT") or options["public_root"];
\* wp = Webpack(yarn_bin, Path(work_dir), document_root=..., mode=...)
WebpackInit ==
    /\ pc["main"] = "init"
    /\ wp' = [set |-> TRUE,
              document_root |->
                  IF "PUBLIC_ROOT" \in environ THEN "environ" ELSE "option",
              package_json_path |->
                  IF "package.json" \in host_files
                  THEN "settings.BASE_DIR/package.json" ELSE "BASE_DIR/package.json",
              yarn_lock_path |->
                  IF "yarn.lock" \in host_files
                  THEN "settings.BASE_DIR/yarn.lock" ELSE "BASE_DIR/yarn.lock",
              node_modules_path |->
                  IF "node_modules" \in host_files
                  THEN "settings.BASE_DIR/node_modules" ELSE "None"]
    /\ Goto("main", IF cmd = "runserver" THEN "submit" ELSE "get_staticfiles")
    /\ UNCHANGED <<cmd, options, environ, host_files, wd_exists, wd_entries, exc,
                   install, build, term, cb_lines, build_ret, config_file, created>>
    /\ UNCHANGED <<asset_vars, sp>>

\* loop.run_in_executor(executor, run_webpack)
Submit ==
    /\ pc["main"] = "submit"
    /\ pc' = [pc EXCEPT !["main"] = "setdefault", !["worker"] = "get_staticfiles"]
    /\ UNCHANGED <<cmd, options, environ, host_files, wp, wd_exists, wd_entries,
                   exc, install, build, term, cb_lines, build_ret, config_file,
                   created>>
    /\ UNCHANGED <<asset_vars, sp>>

\* os.environ.setdefault("PUBLIC_ROOT", public_root): with the variable unset,
\* public_root is the Path of --public-root, which os.environ rejects.
SetDefaultEnviron ==
    /\ pc["main"] = "setdefault"
    /\ IF "PUBLIC_ROOT" \in environ
       THEN Goto("main", "serving") /\ UNCHANGED exc
       ELSE Raise("main", "TypeError")
    /\ UNCHANGED <<cmd, options, environ, host_files, wp, wd_exists, wd_entries,
                   install, build, term, cb_lines, build_ret, config_file, created>>
    /\ UNCHANGED <<asset_vars, sp>>

\* uvicorn.run(...) returns when the server is shut down.
UvicornReturns ==
    /\ pc["main"] = "serving"
    /\ Goto("main", "loop_close")
    /\ UNCHANGED <<cmd, options, environ, host_files, wp, wd_exists, wd_entries,
                   exc, install, build, term, cb_lines, build_ret, config_file,
                   created>>
    /\ UNCHANGED <<asset_vars, sp>>

\* loop.close(): the executor was passed explicitly, so nothing waits for it.
LoopClose ==
    /\ pc["main"] = "loop_close"
    /\ Goto("main", "cleanup_unlink")
    /\ UNCHANGED <<cmd, options, environ, host_files, wp, wd_exists, wd_entries,
                   exc, install, build, term, cb_lines, build_ret, config_file,
                   created>>
    /\ UNCHANGED <<asset_vars, sp>>

\* TemporaryDirectory.__exit__, first half: rmtree lists the directory and
\* unlinks every entry it listed.
CleanupUnlink ==
    /\ pc["main"] = "cleanup_unlink"
    /\ wd_entries' = {}
    /\ config_file' = <<>>
    /\ Goto("main", "cleanup_rmdir")
    /\ UNCHANGED <<cmd, options, environ, host_files, wp, wd_exists, exc, install,
                   build, term, cb_lines, build_ret, created>>
    /\ UNCHANGED <<asset_vars, sp>>

\* TemporaryDirectory.__exit__, second half: rmtree removes the directory
\* itself, which fails (ENOTEMPTY) when an entry was created since the listing.
\* A pending exception of the with block is raised again afterwards.
CleanupRmdir ==
    /\ pc["main"] = "cleanup_rmdir"
    /\ IF wd_entries = {}
       THEN /\ wd_exists' = FALSE
            /\ Goto("main", IF exc["main"].type = "none" THEN "done" ELSE "raised")
            /\ UNCHANGED exc
       ELSE /\ exc' = [exc EXCEPT !["main"] =
                          [type |-> "OSError", step |-> "cleanup_rmdir"]]
            /\ Goto("main", "raised")
            /\ UNCHANGED wd_exists
    /\ UNCHANGED <<cmd, options, environ, host_files, wp, wd_entries, install,
                   build, term, cb_lines, build_ret, config_file, created>>
    /\ UNCHANGED <<asset_vars, sp>>

(***************************************************************************)
(* Webpack.prepare_webpack_root, statement by statement, on thread t.      *)
(***************************************************************************)

\* A call that swallows a finder's exception and goes on with no files.
P_GetStaticfiles_swallow(t) ==
    /\ pc[t] = "get_staticfiles"
    /\ LET r == get_staticfiles(finders)
       IN /\ Goto(t, "write_config")
          /\ found_files' = r.found
          /\ UNCHANGED exc
    /\ UNCHANGED <<finders, STATIC_URL, cwd, aphase, copy_files, request, response,
                   sp>>
    /\ UNCHANGED <<cmd, options, environ, host_files, wp, wd_exists, wd_entries,
                   install, build, term, cb_lines, build_ret, config_file, created>>

\* static_files = self.get_staticfiles(): a finder's exception propagates.
P_GetStaticfiles(t) ==
    /\ pc[t] = "get_staticfiles"
    /\ LET r == get_staticfiles(finders)
       IN IF r.raised
          THEN Raise(t, "FinderError") /\ UNCHANGED found_files
          ELSE Goto(t, "write_config") /\ found_files' = r.found /\ UNCHANGED exc
    /\ UNCHANGED <<finders, STATIC_URL, cwd, aphase, copy_files, request, response,
                   sp>>
    /\ UNCHANGED <<cmd, options, environ, host_files, wp, wd_exists, wd_entries,
                   install, build, term, cb_lines, build_ret, config_file, created>>

\* The context of the template: the built-in parameters, then extra_context
\* (the commands construct Webpack with the default, empty one).
config_context(files) ==
    dict_update([k \in {"mode", "public_path", "copy_files"} |->
                    CASE k = "mode" -> options.mode
                      [] k = "public_path" -> "./"
                      [] OTHER -> files],
                [k \in {} |-> <<>>])

\* copy_files = [...]; with open(self.webpack_config_file, "w") as cf:
\*     cf.write(webpack_config.render(**context))
P_WriteConfig(t) ==
    /\ pc[t] = "write_config"
    /\ copy_files' = make_copy_files(found_files)
    /\ IF wd_exists
       THEN /\ Create(Entry("webpack.config.js", "file", ""))
            /\ config_file' = << render(config_context(copy_files')) >>
            /\ Goto(t, "write_dummy")
            /\ UNCHANGED exc
       ELSE /\ Raise(t, "FileNotFoundError")
            /\ UNCHANGED <<wd_entries, created, config_file>>
    /\ UNCHANGED <<finders, STATIC_URL, cwd, aphase, found_files, request, response,
                   sp>>
    /\ UNCHANGED <<cmd, options, environ, host_files, wp, wd_exists, install, build,
                   term, cb_lines, build_ret>>

\* A step of prepare_webpack_root that creates one directory entry.
CreateStep(t, step, e, next) ==
    /\ pc[t] = step
    /\ IF wd_exists
       THEN Create(e) /\ Goto(t, next) /\ UNCHANGED exc
       ELSE Raise(t, "FileNotFoundError") /\ UNCHANGED <<wd_entries, created>>
    /\ UNCHANGED <<cmd, options, environ, host_files, wp, wd_exists, install, build,
                   term, cb_lines, build_ret, config_file>>
    /\ UNCHANGED <<asset_vars, sp>>

\* with open(self.work_dir / "dummy.js", "w") as df: df.write(...)
P_WriteDummy(t) ==
    CreateStep(t, "write_dummy", Entry("dummy.js", "file", ""), "link_package_json")

\* A link step that insists on the host project's manifest.
P_LinkPackageJson_strict(t) ==
    /\ pc[t] = "link_package_json"
    /\ IF wd_exists /\ "package.json" \in host_files
       THEN /\ Create(Entry("package.json", "symlink", wp.package_json_path))
            /\ Goto(t, "link_yarn_lock")
            /\ UNCHANGED exc
       ELSE Raise(t, "FileNotFoundError") /\ UNCHANGED <<wd_entries, created>>
    /\ UNCHANGED <<cmd, options, environ, host_files, wp, wd_exists, install, build,
                   term, cb_lines, build_ret, config_file>>
    /\ UNCHANGED <<asset_vars, sp>>

\* os.symlink(self.package_json_path, self.work_dir / "package.json"):
\* the target is not looked at.
P_LinkPackageJson(t) ==
    CreateStep(t, "link_package_json",
               Entry("package.json", "symlink", wp.package_json_path),
               "link_yarn_lock")

\* os.symlink(self.yarn_lock_path, self.work_dir / "yarn.lock")
P_LinkYarnLock(t) ==
    CreateStep(t, "link_yarn_lock",
               Entry("yarn.lock", "symlink", wp.yarn_lock_path),
               IF wp.node_modules_path = "None"
               THEN "install_spawn" ELSE "link_node_modules")

\* if self.node_modules_path: os.symlink(self.node_modules_path, ...)
P_LinkNodeModules(t) ==
    CreateStep(t, "link_node_modules",
               Entry("node_modules", "symlink", wp.node_modules_path),
               "install_spawn")

\* Whether Popen can start yarn_bin in work_dir: never with a path that is no
\* executable or a directory that is gone, and the fork itself may fail.
SpawnOutcomes ==
    IF options.yarn_bin = "valid" /\ wd_exists THEN {"started", "OSError"}
    ELSE {"OSError"}

\* subprocess.run([self.yarn_bin], cwd=self.work_dir), until the child runs.
P_InstallSpawn(t) ==
    /\ pc[t] = "install_spawn"
    /\ \E outcome \in SpawnOutcomes :
          IF outcome = "started"
          THEN /\ install' = [state |-> "running", rc |-> "none"]
               /\ Goto(t, "install_wait")
               /\ UNCHANGED exc
          ELSE Raise(t, "OSError") /\ UNCHANGED install
    /\ UNCHANGED <<cmd, options, environ, host_files, wp, wd_exists, wd_entries,
                   build, term, cb_lines, build_ret, config_file, created>>
    /\ UNCHANGED <<asset_vars, sp>>

\* The install, with no node_modules linked, builds one in its directory.
InstallWrites ==
    /\ install.state = "running"
    /\ wd_exists
    /\ \A e \in wd_entries : e.name # "node_modules"
    /\ Create(Entry("node_modules", "dir", ""))
    /\ UNCHANGED <<cmd, options, environ, host_files, wp, wd_exists, pc, exc,
                   install, build, term, cb_lines, build_ret, config_file>>
    /\ UNCHANGED <<asset_vars, sp>>

\* A run to completion that raises CalledProcessError on a non-zero exit.
P_InstallExit_check(t) ==
    /\ pc[t] = "install_wait"
    /\ install.state = "running"
    /\ \E rc \in {"0", "1"} :
          /\ install' = [state |-> "exited", rc |-> rc]
          /\ IF rc = "0" THEN Goto(t, "build_spawn") /\ UNCHANGED exc
             ELSE Raise(t, "CalledProcessError")
    /\ UNCHANGED <<cmd, options, environ, host_files, wp, wd_exists, wd_entries,
                   build, term, cb_lines, build_ret, config_file, created>>
    /\ UNCHANGED <<asset_vars, sp>>

\* subprocess.run(...) returns when the install exits; its return code is not
\* looked at, and prepare_webpack_root returns.
P_InstallExit(t) ==
    /\ pc[t] = "install_wait"
    /\ install.state = "running"
    /\ \E rc \in {"0", "1"} : install' = [state |-> "exited", rc |-> rc]
    /\ Goto(t, "build_spawn")
    /\ UNCHANGED <<cmd, options, environ, host_files, wp, wd_exists, wd_entries,
                   exc, build, term, cb_lines, build_ret, config_file, created>>
    /\ UNCHANGED <<asset_vars, sp>>

(***************************************************************************)
(* Webpack.run_webpack_build on thread t.                                  *)
(***************************************************************************)

\* cmd = [yarn_bin, "webpack", "--config", ..., "--output-path", ...] and
\* "--watch" if watch; subprocess.run(cmd, cwd=self.work_dir), until the child
\* runs.  The child inherits the parent's stdout and stderr.
B_Spawn(t) ==
    /\ pc[t] = "build_spawn"
    /\ \E outcome \in SpawnOutcomes :
          IF outcome = "started"
          THEN /\ build' = [state |-> "running", rc |-> "none"]
               /\ Goto(t, "build_wait")
               /\ UNCHANGED exc
          ELSE Raise(t, "OSError") /\ UNCHANGED build
    /\ UNCHANGED <<cmd, options, environ, host_files, wp, wd_exists, wd_entries,
                   install, term, cb_lines, build_ret, config_file, created>>
    /\ UNCHANGED <<asset_vars, sp>>

\* The bundler writes a line to its stdout or stderr.
BundlerWrites ==
    /\ build.state = "running"
    /\ Len(term) < MaxLines
    /\ \E s \in Streams : term' = Append(term, [stream |-> s, line |-> Len(term) + 1])
    /\ UNCHANGED <<cmd, options, environ, host_files, wp, wd_exists, wd_entries,
                   pc, exc, install, build, cb_lines, build_ret, config_file,
                   created>>
    /\ UNCHANGED <<asset_vars, sp>>

\* How a bundler run ends: with --watch only by a failure or by a signal.
ExitCodes == IF options.watch THEN {"1", "-15"} ELSE {"0", "1"}

\* subprocess.run(...) returns when the bundler exits; the CompletedProcess is
\* dropped and run_webpack_build returns None.
B_Exit(t) ==
    /\ pc[t] = "build_wait"
    /\ build.state = "running"
    /\ \E rc \in ExitCodes : build' = [state |-> "exited", rc |-> rc]
    /\ build_ret' = "None"
    /\ Goto(t, IF t = "main" THEN "cleanup_unlink" ELSE "finished")
    /\ UNCHANGED <<cmd, options, environ, host_files, wp, wd_exists, wd_entries,
                   exc, install, term, cb_lines, config_file, created>>
    /\ UNCHANGED <<asset_vars, sp>>

(***************************************************************************)
(* The commands' specification.                                            *)
(***************************************************************************)

Modes == {"development", "production", "none"}

\* Finder reports the commands are run under: nothing, one file, and each of
\* them with the second finder raising.
CommandFinderInputs ==
    { [files |-> << f, <<>> >>, raiser |-> r] :
        f \in { <<>>, << [path |-> <<"b">>,
                          storage |-> [prefix |-> <<"a">>, location |-> <<"/", "x">>]] >> },
        r \in {0, 2} }

Init ==
    /\ cmd \in {"collectstatic", "runserver"}
    /\ options \in [yarn_bin : {"none", "valid", "broken"}, watch : BOOLEAN,
                    mode : Modes]
    /\ cmd = "runserver" => options.watch
    /\ environ \in SUBSET {"PUBLIC_ROOT"}
    /\ host_files \in SUBSET {"package.json", "yarn.lock", "node_modules"}
    /\ finders \in CommandFinderInputs
    /\ STATIC_URL = <<"/", "s", "/">>
    /\ cwd = <<"/", "w">>
    /\ aphase = "idle"
    /\ InitAssetsIdle
    /\ wp = NoWebpack
    /\ wd_exists = FALSE
    /\ wd_entries = {}
    /\ pc = [t \in Threads |-> IF t = "main" THEN "start" ELSE "idle"]
    /\ exc = [t \in Threads |-> NoException]
    /\ install = NoProcess
    /\ build = NoProcess
    /\ term = <<>>
    /\ cb_lines = [s \in Streams |-> <<>>]
    /\ build_ret = "unset"
    /\ config_file = <<>>
    /\ created = {}
    /\ sp = NoStreaming

Next ==
    \/ CheckYarn
    \/ Mkdtemp
    \/ WebpackInit
    \/ Submit
    \/ SetDefaultEnviron
    \/ UvicornReturns
    \/ LoopClose
    \/ CleanupUnlink
    \/ CleanupRmdir
    \/ InstallWrites
    \/ BundlerWrites
    \/ \E t \in Threads :
          \/ P_GetStaticfiles(t)
          \/ P_WriteConfig(t)
          \/ P_WriteDummy(t)
          \/ P_LinkPackageJson(t)
          \/ P_LinkYarnLock(t)
          \/ P_LinkNodeModules(t)
          \/ P_InstallSpawn(t)
          \/ P_InstallExit(t)
          \/ B_Spawn(t)
          \/ B_Exit(t)

Spec == Init /\ [][Next]_vars

(***************************************************************************)
(* execute(_stream_subprocess(cmd, stdout_cb, stderr_cb)): the helper that *)
(* runs a child with both streams piped and drains them with two reader    *)
(* tasks on the asyncio loop.  Neither command calls it.                   *)
(***************************************************************************)

\* Lines an OS pipe holds before the writer blocks.
PipeCap == 1

\* execute() calls one process makes.
MaxCalls == 2

\* execute(): loop = asyncio.get_event_loop();
\* loop.run_until_complete(asyncio.gather(*aws)) raises on a closed loop.
Execute ==
    /\ sp.pc = "idle"
    /\ sp.calls < MaxCalls
    /\ IF sp.loop_closed
       THEN /\ sp' = [sp EXCEPT !.calls = @ + 1,
                                !.result = [kind |-> "raised", value |-> "RuntimeError"]]
            /\ UNCHANGED cb_lines
       ELSE /\ sp' = [sp EXCEPT !.calls = @ + 1, !.pc = "spawn", !.result = NoResult,
                                !.child = NoProcess, !.written = <<>>]
            /\ cb_lines' = [s \in Streams |-> <<>>]
    /\ UNCHANGED <<asset_vars, cmd_other>>

\* process = await asyncio.create_subprocess_exec(*cmd, stdout=PIPE,
\* stderr=PIPE); except OSError as e: return e
SS_Spawn ==
    /\ sp.pc = "spawn"
    /\ \E outcome \in {"started", "OSError"} :
          IF outcome = "started"
          THEN sp' = [sp EXCEPT !.pc = "draining",
                                !.child = [state |-> "running", rc |-> "none"],
                                !.reader = [s \in Streams |-> "reading"]]
          ELSE sp' = [sp EXCEPT !.pc = "closing",
                                !.result = [kind |-> "returned", value |-> "OSError"]]
    /\ UNCHANGED <<asset_vars, cmd_vars>>

\* The child writes a line to a pipe that has room; on a full pipe it blocks.
SS_ChildWrite(s) ==
    /\ sp.child.state = "running"
    /\ Len(sp.written) < MaxLines
    /\ Len(sp.pipe[s]) < PipeCap
    /\ LET l == [stream |-> s, line |-> Len(sp.written) + 1]
       IN sp' = [sp EXCEPT !.written = Append(@, l),
                           !.pipe[s] = Append(@, l.line)]
    /\ UNCHANGED <<asset_vars, cmd_vars>>

\* The child exits, which closes its ends of both pipes.
SS_ChildExit ==
    /\ sp.child.state = "running"
    /\ \E rc \in {"0", "1"} : sp' = [sp EXCEPT !.child = [state |-> "exited", rc |-> rc]]
    /\ UNCHANGED <<asset_vars, cmd_vars>>

\* _read_stream: line = await stream.readline(); if line: cb(line)
SS_ReadLine(s) ==
    /\ sp.pc = "draining"
    /\ sp.reader[s] = "reading"
    /\ sp.pipe[s] # <<>>
    /\ cb_lines' = [cb_lines EXCEPT ![s] = Append(@, Head(sp.pipe[s]))]
    /\ sp' = [sp EXCEPT !.pipe[s] = Tail(@)]
    /\ UNCHANGED <<asset_vars, cmd_other>>

\* _read_stream: else: break, at the end of the stream.
SS_ReadEOF(s) ==
    /\ sp.pc = "draining"
    /\ sp.reader[s] = "reading"
    /\ sp.pipe[s] = <<>>
    /\ sp.child.state = "exited"
    /\ sp' = [sp EXCEPT !.reader[s] = "done"]
    /\ UNCHANGED <<asset_vars, cmd_vars>>

\* await asyncio.wait([...]) returns when both readers have finished.
SS_DrainDone ==
    /\ sp.pc = "draining"
    /\ \A s \in Streams : sp.reader[s] = "done"
    /\ sp' = [sp EXCEPT !.pc = "waiting"]
    /\ UNCHANGED <<asset_vars, cmd_vars>>

\* rc = await process.wait(); return process.pid, rc
SS_Wait ==
    /\ sp.pc = "waiting"
    /\ sp.child.state = "exited"
    /\ sp' = [sp EXCEPT !.pc = "closing",
                        !.result = [kind |-> "returned", value |-> sp.child.rc]]
    /\ UNCHANGED <<asset_vars, cmd_vars>>

\* execute(): loop.close(); return rc
ExecuteClose ==
    /\ sp.pc = "closing"
    /\ sp' = [sp EXCEPT !.pc = "idle", !.loop_closed = TRUE]
    /\ UNCHANGED <<asset_vars, cmd_vars>>

\* The lines written to one stream, in the order written.
RECURSIVE LinesOf(_, _)
LinesOf(lines, s) ==
    IF lines = <<>> THEN <<>>
    ELSE IF Head(lines).stream = s
         THEN <<Head(lines).line>> \o LinesOf(Tail(lines), s)
         ELSE LinesOf(Tail(lines), s)

NextStream ==
    \/ Execute
    \/ SS_Spawn
    \/ SS_ChildExit
    \/ SS_DrainDone
    \/ SS_Wait
    \/ ExecuteClose
    \/ \E s \in Streams : SS_ChildWrite(s) \/ SS_ReadLine(s) \/ SS_ReadEOF(s)

InitStream ==
    /\ finders \in CommandFinderInputs
    /\ STATIC_URL = <<"/", "s", "/">>
    /\ cwd = <<"/", "w">>
    /\ aphase = "idle"
    /\ InitAssetsIdle
    /\ InitNoCommand

SpecStream == InitStream /\ [][NextStream]_vars

\* The helper on its own: a call that has returned after a started child has
\* passed every line written to each stream to that stream's callback, in
\* order, and returns the child's exit code; a later call finds the loop closed.
StreamHelperDrains ==
    /\ (sp.pc = "closing" /\ sp.child.state = "exited") =>
          /\ \A s \in Streams : cb_lines[s] = LinesOf(sp.written, s)
          /\ sp.result = [kind |-> "returned", value |-> sp.child.rc]
    /\ sp.result.kind = "raised" => sp.loop_closed

(***************************************************************************)
(* Properties of the registry (SpecStatic) and of the prefix (SpecPrefix). *)
(***************************************************************************)

\* Every pair the finders report, in enumeration order.
RECURSIVE EnumerationFrom(_, _)
EnumerationFrom(fs, i) ==
    IF i > Len(FinderNames) THEN <<>>
    ELSE fs.files[i] \o EnumerationFrom(fs, i + 1)

Enumeration == EnumerationFrom(finders, 1)

\* The public path of a reported pair: prefix/relativePath, or relativePath.
PublicPath(e) ==
    IF e.storage.prefix # <<>> THEN e.storage.prefix \o SLASH \o e.path ELSE e.path

FirstIndex(k) ==
    CHOOSE i \in 1..Len(Enumeration) :
        /\ PublicPath(Enumeration[i]) = k
        /\ \A j \in 1..(i - 1) : PublicPath(Enumeration[j]) # k

\* C1: the registry's keys are exactly the public paths the finders produced,
\* each key once, and the value under a key is the (location, relativePath) of
\* the first pair in enumeration order that produced it.
C1_FirstOccurrenceWins ==
    aphase \in {"collected", "copied", "served"} =>
        /\ { found_files[i].key : i \in 1..Len(found_files) }
             = { PublicPath(Enumeration[i]) : i \in 1..Len(Enumeration) }
        /\ \A i, j \in 1..Len(found_files) :
              found_files[i].key = found_files[j].key => i = j
        /\ \A i \in 1..Len(found_files) :
              LET e == Enumeration[FirstIndex(found_files[i].key)]
              IN found_files[i].val = <<e.storage.location, e.path>>

\* C1's case: the two finders report the same public path from different
\* locations, and the registry has been built.
C1_Witness ==
    /\ aphase = "collected"
    /\ \E a \in 1..Len(finders.files[1]), b \in 1..Len(finders.files[2]) :
          /\ PublicPath(finders.files[1][a]) = PublicPath(finders.files[2][b])
          /\ finders.files[1][a].storage.location
               # finders.files[2][b].storage.location

\* C5, as claimed: the prefix of the copy destinations is the prefix the
\* matcher strips, so matching a copy directive's destination gives back the
\* public path, and a request outside the prefix is not matched.
C5_PrefixSymmetry ==
    aphase \in {"copied", "served"} =>
        /\ \A i \in 1..Len(copy_files) :
              staticfiles_matcher(copy_files[i].dest) = << found_files[i].key >>
        /\ (aphase = "served" /\ ~StartsWith(request, staticfiles_prefix))
              => response.via = "get_response"

(***************************************************************************)
(* Properties of the commands (Spec).                                      *)
(***************************************************************************)

\* C2, as claimed: once handle has ended, normally or with an exception, the
\* working directory is gone.
C2_WorkDirDestroyed ==
    pc["main"] \in {"done", "raised"} => ~wd_exists

\* C3, as claimed: a bundler that cannot be started never makes the build call
\* raise; the failure is returned as a value.
C3_SpawnFailureReturned ==
    \A t \in Threads : exc[t].step # "build_spawn"

\* C4, as claimed: when the build call has completed, every line the bundler
\* wrote to a stream has been passed to that stream's callback, in order.
C4_AllLinesToCallbacks ==
    build_ret # "unset" =>
        \A s \in Streams : cb_lines[s] = LinesOf(term, s)

\* C6, as claimed: with the host's package.json missing, no subprocess is ever
\* spawned.
C6_MissingManifestAborts ==
    "package.json" \notin host_files =>
        install.state = "none" /\ build.state = "none"

LinkSteps == {"link_package_json", "link_yarn_lock", "link_node_modules"}

AfterPackageJsonLink ==
    {"link_yarn_lock", "link_node_modules", "install_spawn", "install_wait",
     "build_spawn", "build_wait", "finished"}

ExpectedManifest ==
    IF "package.json" \in host_files
    THEN "settings.BASE_DIR/package.json" ELSE "BASE_DIR/package.json"

\* C6, amended: a missing host package.json is no error.  The Webpack object
\* falls back to the package's own BASE_DIR/package.json, the link step links
\* that path without looking at it and fails only when the working directory
\* is gone, and a thread past the link step has created the link; a missing
\* node_modules only means no node_modules symlink is ever created.
C6_ManifestFallback ==
    /\ wp.set => wp.package_json_path = ExpectedManifest
    /\ \A e \in created :
          e.name = "package.json" =>
              e = Entry("package.json", "symlink", ExpectedManifest)
    /\ \A t \in Threads : exc[t].step \in LinkSteps => ~wd_exists
    /\ \A t \in Threads :
          pc[t] \in AfterPackageJsonLink =>
              Entry("package.json", "symlink", ExpectedManifest) \in created
    /\ "node_modules" \notin host_files =>
          \A e \in created : ~(e.name = "node_modules" /\ e.kind = "symlink")

\* C6's case: no package.json and no node_modules on the host, the dangling
\* link is in place and the install is running.
C6_Witness ==
    /\ "package.json" \notin host_files
    /\ "node_modules" \notin host_files
    /\ Entry("package.json", "symlink", "BASE_DIR/package.json") \in wd_entries
    /\ install.state = "running"

\* C7, as claimed: when a bundler not in watch mode has exited, the build call
\* has handed its exit code to the caller.
C7_ExitCodeSurfaced ==
    (build.state = "exited" /\ ~options.watch) => build_ret = build.rc

BeforeGetStaticfiles ==
    {"idle", "start", "mkdtemp", "init", "submit", "get_staticfiles"}

\* C8: when a finder raises, the thread that ran get_staticfiles is raising
\* that error from that very call, and nothing has been written to the working
\* directory and no subprocess has been spawned.
C8_FinderErrorPropagates ==
    (/\ finders.raiser # 0
     /\ pc[runner] \notin BeforeGetStaticfiles
     /\ exc[runner].type # "CommandError") =>
        /\ exc[runner] = [type |-> "FinderError", step |-> "get_staticfiles"]
        /\ pc[runner] \notin {"write_config", "write_dummy", "install_spawn",
                              "install_wait", "build_spawn", "build_wait"}
               \cup LinkSteps
        /\ created = {}
        /\ wd_entries = {}
        /\ config_file = <<>>
        /\ install = NoProcess
        /\ build = NoProcess

\* C8's case: a finder has raised and the error has left prepare_webpack_root.
C8_Witness ==
    \E t \in Threads :
        exc[t].type = "FinderError" /\ pc[t] \in {"failed", "cleanup_unlink"}

RequiredBeforeInstall ==
    {"webpack.config.js", "dummy.js", "package.json", "yarn.lock"}

WorkerExecuting ==
    {"get_staticfiles", "write_config", "write_dummy", "install_spawn",
     "install_wait", "build_spawn", "build_wait"} \cup LinkSteps

\* C10, as claimed: while the worker is inside prepare_webpack_root or
\* run_webpack_build, the working directory exists.
C10_WorkDirOutlivesWorker ==
    pc["worker"] \in WorkerExecuting => wd_exists
=============================================================================
